---------------------------- MODULE Spec2Model ----------------------------
(***************************************************************************)
(* Quiz Smith: the web quiz flow of app.py as a state machine.             *)
(*                                                                         *)
(* The state is the Flask session of one browser (a dictionary that holds  *)
(* a subset of the keys quiz_filename, current_question, answers, score,   *)
(* quiz_started), the MCQ files on disk that the handlers re-read on every *)
(* request, and the response of the last request.  Every route of app.py   *)
(* that reads or writes the session is one action.  The browser is taken   *)
(* to send back the session cookie of the previous response, one request   *)
(* at a time, and the files do not change while a session runs.            *)
(*                                                                         *)
(* A second specification, ParseSpec, runs parse_mcqs of generate_mcqs.py  *)
(* on LLM completions written from bounded sets of question blocks.        *)
(***************************************************************************)
EXTENDS Integers, Sequences, FiniteSets, TLC

VARIABLES
    files,      \* the MCQ JSON files on disk: filename -> parsed document
    session,    \* flask.session: key -> value, DOMAIN = the keys present
    response,   \* what the last request returned
    last_op,    \* the route of the last request ("none" before the first)
    last_arg,   \* its argument: the filename, the posted answer, or ""
    pre,        \* history: the session as the last request found it
    submitted,  \* history: the accepted submissions since the last start
    blocks,         \* history: the question blocks the LLM text was written from
    response_text,  \* the LLM completion handed to parse_mcqs
    parsed,         \* the list parse_mcqs returned (generated_questions)
    shown,          \* what display_mcqs printed: <<number, record>> pairs
    stage           \* "text", then "parsed", then "displayed"

\* The variables of the web quiz and those of the generator script.
web_vars == <<files, session, response, last_op, last_arg, pre, submitted>>

parser_vars == <<blocks, response_text, parsed, shown, stage>>

vars == <<web_vars, parser_vars>>

(***************************************************************************)
(* Bounds and input sets                                                   *)
(***************************************************************************)
\* Longest question list of the arbitrary batch mcqs_gen.json.
MaxQuestions == 2

\* The labels a persisted question may carry as correct_answer.
Labels == {"A", "B", "C", "D"}

\* request.json.get('answer') when the body has no 'answer' key (or null).
None == "None"

\* What a client may post as answer: a legal label, an illegal one, nothing.
UserAnswers == Labels \cup {"X", None}

(***************************************************************************)
(* Files on disk                                                           *)
(***************************************************************************)
\* One persisted question; app.py reads only correct_answer and hands the
\* whole record to the templates.
Question(i, c) == [id |-> i, correct_answer |-> c]

\* A parsed batch document with the given correct answers, in order.
Batch(query, answers) ==
    [is_none   |-> FALSE,
     keys      |-> {"metadata", "questions"},
     query     |-> query,
     questions |-> [i \in 1..Len(answers) |-> Question(i, answers[i])]]

\* A file holding the JSON document {}: it loads, and is falsy in Python.
EmptyObject ==
    [is_none |-> FALSE, keys |-> {}, query |-> "", questions |-> <<>>]

\* What load_mcq_data returns when open() or json.load() raises.
NoneData ==
    [is_none |-> TRUE, keys |-> {}, query |-> "", questions |-> <<>>]

\* All sequences over S of length at most n.
RECURSIVE SeqsUpTo(_, _)
SeqsUpTo(S, n) ==
    IF n = 0 THEN {<<>>}
    ELSE LET shorter == SeqsUpTo(S, n - 1)
         IN  shorter \cup {Append(s, x) : s \in {t \in shorter : Len(t) = n - 1}, x \in S}

\* The names a request may carry in /quiz/<filename>; missing.json is not
\* on disk.
Filenames == {"mcqs_gen.json", "mcqs_abc.json", "mcqs_obj.json", "missing.json"}

\* The directories considered: an arbitrary batch of at most MaxQuestions
\* questions, the three-question batch with answers A, B, C, and a file
\* holding {}.
FileStores ==
    { [f \in {"mcqs_gen.json", "mcqs_abc.json", "mcqs_obj.json"} |->
         CASE f = "mcqs_gen.json" -> Batch("gen", a)
           [] f = "mcqs_abc.json" -> Batch("abc", <<"A", "B", "C">>)
           [] OTHER               -> EmptyObject]
      : a \in SeqsUpTo(Labels, MaxQuestions) }

(***************************************************************************)
(* Helpers of the handlers                                                 *)
(***************************************************************************)
\* load_mcq_data: the parsed document, or None when reading fails.
load_mcq_data(filename) ==
    IF filename \in DOMAIN files THEN files[filename] ELSE NoneData

\* Python truth of a loaded document: None and {} are falsy.
Truthy(mcq_data) == ~mcq_data.is_none /\ mcq_data.keys # {}

\* str(current_q): the session cookie is JSON, its keys are strings.
str(i) == ToString(i)

\* user_answer == correct_answer
IsCorrect(user_answer, correct_answer) == user_answer = correct_answer

\* The session after session.clear().
EmptySession == [k \in {} |-> TRUE]

\* The empty dict {} stored under session['answers'].
EmptyAnswers == [k \in {} |-> TRUE]

\* d[key] = value on a dict.
SetItem(d, key, value) ==
    [k \in DOMAIN d \cup {key} |-> IF k = key THEN value ELSE d[k]]

\* A variant that validates the label and stores None for an illegal one.
AnswerRecordValidated(user_answer, correct_answer) ==
    LET kept == IF user_answer \in Labels THEN user_answer ELSE None
    IN  [user_answer    |-> kept,
         correct_answer |-> correct_answer,
         is_correct     |-> IsCorrect(kept, correct_answer)]

\* The record submit_answer stores for one question.
AnswerRecord(user_answer, correct_answer) ==
    [user_answer    |-> user_answer,
     correct_answer |-> correct_answer,
     is_correct     |-> IsCorrect(user_answer, correct_answer)]

\* A variant that counts every submission, right or wrong.
ScoreAfterUnconditional(score, user_answer, correct_answer) == score + 1

\* session['score'] after the "Update score" step.
ScoreAfter(score, user_answer, correct_answer) ==
    IF IsCorrect(user_answer, correct_answer) THEN score + 1 ELSE score

\* A variant that moves the cursor two questions on.
CursorAfterSkipping(current_q) == current_q + 2

\* A variant that leaves the cursor on the question just answered.
CursorAfterStaying(current_q) == current_q

\* session['current_question'] after the "Move to next question" step.
CursorAfter(current_q) == current_q + 1

\* current_q >= len(quiz_data['questions'])
Exhausted(current_q, quiz_data) == current_q >= Len(quiz_data.questions)

\* A variant that forgets the factor 100.
PercentageAsFraction(score, total) ==
    IF total > 0 THEN [num |-> score, den |-> total]
    ELSE [num |-> 0, den |-> 1]

\* Python's score / total * 100, kept as the exact fraction num / den
\* (the float's rounding is not modelled); 0 when total is 0.
Percentage(score, total) ==
    IF total > 0 THEN [num |-> score * 100, den |-> total]
    ELSE [num |-> 0, den |-> 1]

\* The detailed_results loop of results(): question i (0-based) of the
\* batch, from index i on, for the indices with a stored answer.
RECURSIVE DetailedFrom(_, _, _)
DetailedFrom(i, questions, answers) ==
    IF i >= Len(questions) THEN <<>>
    ELSE (IF str(i) \in DOMAIN answers
          THEN << [question       |-> questions[i + 1],
                   user_answer    |-> answers[str(i)].user_answer,
                   correct_answer |-> answers[str(i)].correct_answer,
                   is_correct     |-> answers[str(i)].is_correct] >>
          ELSE <<>>)
         \o DetailedFrom(i + 1, questions, answers)

DetailedResults(questions, answers) == DetailedFrom(0, questions, answers)

(***************************************************************************)
(* Responses                                                               *)
(***************************************************************************)
NoResponse == [kind |-> "none"]

Redirect(to) == [kind |-> "redirect", status |-> 302, to |-> to]

\* A variant that forgets the status code: jsonify alone answers 200.
JsonErrorDefaultStatus(message) ==
    [kind |-> "json", status |-> 200, error |-> message]

\* jsonify({'error': message}), 400
JsonError(message) == [kind |-> "json", status |-> 400, error |-> message]

\* A variant that keeps the answers and the score a session already has
\* (session.setdefault in place of the assignments).
FreshSessionSetdefault(s, filename) ==
    LET has == "answers" \in DOMAIN s /\ "score" \in DOMAIN s
    IN  [quiz_filename    |-> filename,
         current_question |-> 0,
         answers          |-> IF has THEN s.answers ELSE EmptyAnswers,
         score            |-> IF has THEN s.score ELSE 0,
         quiz_started     |-> TRUE]

\* The session after start_quiz's five assignments: every key it sets is
\* overwritten, and these are all the keys a session ever holds.
FreshSession(s, filename) ==
    SetItem(SetItem(SetItem(SetItem(SetItem(s,
        "quiz_filename", filename),
        "current_question", 0),
        "answers", EmptyAnswers),
        "score", 0),
        "quiz_started", TRUE)

\* A variant of the progress body that counts questions from 1, as the
\* question page does.
ProgressBodyOneBased(s) ==
    [kind             |-> "json",
     status           |-> 200,
     current_question |-> s.current_question + 1,
     total_questions  |-> Len(load_mcq_data(s.quiz_filename).questions),
     score            |-> s.score]

\* What quiz_progress answers for a session bound to a batch.
ProgressBody(s) ==
    [kind             |-> "json",
     status           |-> 200,
     current_question |-> s.current_question,
     total_questions  |-> Len(load_mcq_data(s.quiz_filename).questions),
     score            |-> s.score]

\* The results page of a session bound to a batch.
ResultsPage(s) ==
    LET quiz_data == load_mcq_data(s.quiz_filename)
        answers   == s.answers
        score     == s.score
        total     == Len(quiz_data.questions)
    IN  [kind             |-> "render",
         status           |-> 200,
         template         |-> "results.html",
         quiz_title       |-> quiz_data.query,
         score            |-> score,
         total            |-> total,
         percentage       |-> Percentage(score, total),
         detailed_results |-> DetailedResults(quiz_data.questions, answers)]

(***************************************************************************)
(* Initial state: no request yet, an empty session                         *)
(***************************************************************************)
Init ==
    /\ files \in FileStores
    /\ session = EmptySession
    /\ response = NoResponse
    /\ last_op = "none"
    /\ last_arg = ""
    /\ pre = EmptySession
    /\ submitted = <<>>
    /\ blocks = <<>>
    /\ response_text = ""
    /\ parsed = <<>>
    /\ shown = <<>>
    /\ stage = "text"

(***************************************************************************)
(* GET /quiz/<filename>                                                    *)
(***************************************************************************)
start_quiz(filename) ==
    LET mcq_data == load_mcq_data(filename) IN
    /\ last_op' = "start_quiz"
    /\ last_arg' = filename
    /\ pre' = session
    /\ UNCHANGED parser_vars
    /\ IF ~Truthy(mcq_data)
       THEN /\ response' = Redirect("index")
            /\ UNCHANGED <<session, submitted>>
       ELSE /\ session' = FreshSession(session, filename)
            /\ submitted' = <<>>
            /\ response' = Redirect("question")
    /\ UNCHANGED files

(***************************************************************************)
(* GET /question                                                           *)
(***************************************************************************)
question ==
    /\ last_op' = "question"
    /\ last_arg' = ""
    /\ pre' = session
    /\ UNCHANGED parser_vars
    /\ IF "quiz_filename" \notin DOMAIN session
       THEN response' = Redirect("index")
       ELSE LET quiz_data == load_mcq_data(session.quiz_filename)
                current_q == session.current_question
            IN  IF Exhausted(current_q, quiz_data)
                THEN response' = Redirect("results")
                ELSE response' =
                        [kind       |-> "render",
                         status     |-> 200,
                         template   |-> "question.html",
                         question   |-> quiz_data.questions[current_q + 1],
                         current    |-> current_q + 1,
                         total      |-> Len(quiz_data.questions),
                         quiz_title |-> quiz_data.query]
    /\ UNCHANGED <<files, session, submitted>>

(***************************************************************************)
(* POST /submit_answer                                                     *)
(***************************************************************************)
\* The write into the nested answers dict does not by itself mark the
\* session modified; the assignment to current_question that follows in
\* every accepted request does, so the whole session is saved.
submit_answer(user_answer) ==
    /\ last_op' = "submit_answer"
    /\ last_arg' = user_answer
    /\ pre' = session
    /\ UNCHANGED parser_vars
    /\ IF "quiz_filename" \notin DOMAIN session
       THEN /\ response' = JsonError("No active quiz")
            /\ UNCHANGED <<session, submitted>>
       ELSE LET quiz_data == load_mcq_data(session.quiz_filename)
                current_q == session.current_question
            IN  IF Exhausted(current_q, quiz_data)
                THEN /\ response' = JsonError("Quiz completed")
                     /\ UNCHANGED <<session, submitted>>
                ELSE LET question_data  == quiz_data.questions[current_q + 1]
                         correct_answer == question_data.correct_answer
                     IN  /\ session' =
                               [session EXCEPT
                                  !.answers = SetItem(@, str(current_q),
                                      AnswerRecord(user_answer, correct_answer)),
                                  !.score = ScoreAfter(@, user_answer, correct_answer),
                                  !.current_question = CursorAfter(@)]
                         /\ submitted' = Append(submitted,
                               [label |-> user_answer, correct |-> correct_answer])
                         /\ response' =
                               [kind           |-> "json",
                                status         |-> 200,
                                correct        |-> IsCorrect(user_answer, correct_answer),
                                correct_answer |-> correct_answer,
                                explanation    |-> "The correct answer is " \o correct_answer]
    /\ UNCHANGED files

(***************************************************************************)
(* GET /results                                                            *)
(***************************************************************************)
\* A variant that clears the session once the results page is built.
results_then_clear ==
    /\ last_op' = "results"
    /\ last_arg' = ""
    /\ pre' = session
    /\ UNCHANGED parser_vars
    /\ IF "quiz_filename" \notin DOMAIN session \/ "answers" \notin DOMAIN session
       THEN /\ response' = Redirect("index")
            /\ UNCHANGED <<session, submitted>>
       ELSE /\ response' = ResultsPage(session)
            /\ session' = EmptySession
            /\ submitted' = <<>>
    /\ UNCHANGED files

results ==
    /\ last_op' = "results"
    /\ last_arg' = ""
    /\ pre' = session
    /\ UNCHANGED parser_vars
    /\ IF "quiz_filename" \notin DOMAIN session \/ "answers" \notin DOMAIN session
       THEN response' = Redirect("index")
       ELSE response' = ResultsPage(session)
    /\ UNCHANGED <<files, session, submitted>>

(***************************************************************************)
(* GET /reset                                                              *)
(***************************************************************************)
reset_quiz ==
    /\ last_op' = "reset_quiz"
    /\ last_arg' = ""
    /\ pre' = session
    /\ UNCHANGED parser_vars
    /\ session' = EmptySession
    /\ submitted' = <<>>
    /\ response' = Redirect("index")
    /\ UNCHANGED files

(***************************************************************************)
(* GET /api/quiz_progress                                                  *)
(***************************************************************************)
quiz_progress ==
    /\ last_op' = "quiz_progress"
    /\ last_arg' = ""
    /\ pre' = session
    /\ UNCHANGED parser_vars
    /\ IF "quiz_filename" \notin DOMAIN session
       THEN response' = JsonError("No active quiz")
       ELSE response' = ProgressBody(session)
    /\ UNCHANGED <<files, session, submitted>>

(***************************************************************************)
(* The requests a browser may send, in any order                           *)
(***************************************************************************)
Next ==
    \/ \E filename \in Filenames : start_quiz(filename)
    \/ question
    \/ \E user_answer \in UserAnswers : submit_answer(user_answer)
    \/ results
    \/ reset_quiz
    \/ quiz_progress

Spec == Init /\ [][Next]_vars


(***************************************************************************)
(* generate_mcqs.py: strings.  A string is a TLC string; Len, SubSeq and   *)
(* \o act on its characters.                                               *)
(***************************************************************************)
\* The characters str.strip() removes.
Whitespace == {" ", "\n", "\t", "\r"}

\* s[i - 1] in Python: the i-th character.
CharAt(s, i) == SubSeq(s, i, i)

\* s.startswith(prefix)
StartsWith(s, prefix) ==
    Len(s) >= Len(prefix) /\ SubSeq(s, 1, Len(prefix)) = prefix

\* s.find(sub) + 1: the first position where sub occurs in s, 0 if none.
Find(s, sub) ==
    LET hits == {i \in 1..(Len(s) - Len(sub) + 1) : SubSeq(s, i, i + Len(sub) - 1) = sub}
    IN  IF hits = {} THEN 0 ELSE CHOOSE i \in hits : \A j \in hits : i <= j

\* sub in s
Contains(s, sub) == Find(s, sub) # 0

\* s.lstrip()
RECURSIVE LStrip(_)
LStrip(s) ==
    IF Len(s) > 0 /\ CharAt(s, 1) \in Whitespace
    THEN LStrip(SubSeq(s, 2, Len(s)))
    ELSE s

\* s.rstrip()
RECURSIVE RStrip(_)
RStrip(s) ==
    IF Len(s) > 0 /\ CharAt(s, Len(s)) \in Whitespace
    THEN RStrip(SubSeq(s, 1, Len(s) - 1))
    ELSE s

\* s.strip()
Strip(s) == RStrip(LStrip(s))

\* s.rstrip(':'): every trailing colon goes.
RECURSIVE RStripColon(_)
RStripColon(s) ==
    IF Len(s) > 0 /\ CharAt(s, Len(s)) = ":"
    THEN RStripColon(SubSeq(s, 1, Len(s) - 1))
    ELSE s

\* s.split(sep): the pieces between the occurrences of sep, found from the
\* left and not overlapping; one piece when sep does not occur.
RECURSIVE Split(_, _)
Split(s, sep) ==
    LET at == Find(s, sep)
    IN  IF at = 0 THEN <<s>>
        ELSE <<SubSeq(s, 1, at - 1)>>
             \o Split(SubSeq(s, at + Len(sep), Len(s)), sep)

\* s.upper(), for the ASCII letters.
LowerCase == "abcdefghijklmnopqrstuvwxyz"

UpperCase == "ABCDEFGHIJKLMNOPQRSTUVWXYZ"

RECURSIVE Upper(_)
Upper(s) ==
    IF Len(s) = 0 THEN ""
    ELSE LET c  == CharAt(s, 1)
             at == Find(LowerCase, c)
         IN  (IF at = 0 THEN c ELSE CharAt(UpperCase, at))
             \o Upper(SubSeq(s, 2, Len(s)))

\* seq[-1]
Last(seq) == seq[Len(seq)]

\* [line.strip() for line in seq if line.strip()]
RECURSIVE NonEmptyStripped(_)
NonEmptyStripped(seq) ==
    IF seq = <<>> THEN <<>>
    ELSE (IF Strip(Head(seq)) # "" THEN <<Strip(Head(seq))>> ELSE <<>>)
         \o NonEmptyStripped(Tail(seq))

(***************************************************************************)
(* generate_mcqs.py: parse_mcqs                                            *)
(***************************************************************************)
\* [line.strip() for line in q_text.strip().split('\n') if line.strip()]
BlockLines(q_text) == NonEmptyStripped(Split(Strip(q_text), "\n"))

\* line.startswith(('A)', 'B)', 'C)', 'D)'))
IsOptionLine(line) ==
    \E prefix \in {"A)", "B)", "C)", "D)"} : StartsWith(line, prefix)

\* "Correct Answer:" in line or "Answer:" in line
HasAnswerMarker(line) ==
    Contains(line, "Correct Answer:") \/ Contains(line, "Answer:")

\* A variant of the loop without the break: it keeps the first answer line
\* and goes on collecting the option lines after it.
RECURSIVE ScanLinesNoBreak(_, _, _, _)
ScanLinesNoBreak(lines, i, options, answer_line) ==
    IF i > Len(lines)
    THEN [options |-> options, answer_line |-> answer_line]
    ELSE IF IsOptionLine(lines[i])
    THEN ScanLinesNoBreak(lines, i + 1, Append(options, lines[i]), answer_line)
    ELSE IF HasAnswerMarker(lines[i]) /\ answer_line = ""
    THEN ScanLinesNoBreak(lines, i + 1, options, lines[i])
    ELSE ScanLinesNoBreak(lines, i + 1, options, answer_line)

\* The loop "for line in lines[1:]" from line i on, with the options
\* collected so far: option lines are appended, the first other line with
\* an answer marker becomes answer_line and ends the loop.
RECURSIVE ScanLines(_, _, _, _)
ScanLines(lines, i, options, answer_line) ==
    IF i > Len(lines)
    THEN [options |-> options, answer_line |-> answer_line]
    ELSE IF IsOptionLine(lines[i])
    THEN ScanLines(lines, i + 1, Append(options, lines[i]), answer_line)
    ELSE IF HasAnswerMarker(lines[i])
    THEN [options |-> options, answer_line |-> lines[i]]
    ELSE ScanLines(lines, i + 1, options, answer_line)

\* answer_line.split(':')[-1].strip().upper()
AnswerLetter(answer_line) == Upper(Strip(Last(Split(answer_line, ":"))))

\* One pass of the loop over raw_questions: the records (none or one) the
\* piece q_text adds to questions.
ParseBlock(q_text) ==
    LET lines == BlockLines(q_text)
    IN  IF Len(lines) < 6 THEN <<>>
        ELSE LET question_text == RStripColon(lines[1])
                 question_line == "Question " \o question_text
                 scan          == ScanLines(lines, 2, <<>>, "")
                 answer_letter == AnswerLetter(scan.answer_line)
             IN  IF /\ Len(scan.options) = 4
                    /\ scan.answer_line # ""
                    /\ answer_letter \in {"A", "B", "C", "D"}
                 THEN << [question        |-> question_line,
                          options         |-> scan.options,
                          correct_answer  |-> answer_letter,
                          raw_answer_line |-> scan.answer_line] >>
                 ELSE <<>>

\* The records of the pieces in order.
RECURSIVE ParseBlocks(_)
ParseBlocks(raw_questions) ==
    IF raw_questions = <<>> THEN <<>>
    ELSE ParseBlock(Head(raw_questions)) \o ParseBlocks(Tail(raw_questions))

\* parse_mcqs(response_text)
parse_mcqs(text) ==
    IF text = "" THEN <<>>
    ELSE ParseBlocks(Tail(Split(Strip(text), "Question ")))

\* A variant that numbers from 0: enumerate(questions).
EnumerateFromZero(records) ==
    [i \in 1..Len(records) |-> <<i - 1, records[i]>>]

\* enumerate(questions, 1) as display_mcqs and run_mcq_quiz loop over it.
Enumerate(records) ==
    [i \in 1..Len(records) |-> <<i, records[i]>>]

(***************************************************************************)
(* LLM completions: the texts parse_mcqs is run on                         *)
(***************************************************************************)
\* Most question blocks in one completion.
MaxBlocks == 2

\* An answer line and the letter it names ("" when it names none of A..D,
\* or when there is no answer line).
CorrectB == [line |-> "Correct Answer: B", letter |-> "B"]

CorrectD == [line |-> "Correct Answer: D", letter |-> "D"]

BareLowerD == [line |-> "Answer: d", letter |-> "D"]

CorrectE == [line |-> "Correct Answer: E", letter |-> ""]

NoAnswerLine == [line |-> "", letter |-> ""]

\* A block as the prompt of create_mcq_prompt asks for it: "Question 1: P?",
\* the options A) x .. D) x, then "Correct Answer: B".  num is the number
\* written after "Question", labels the labels of the option lines in file
\* order, text the text of every option, at the number of option lines that
\* stand before the answer line, extra a line after all others ("" for
\* none).
BaseBlock ==
    [num    |-> "1",
     prompt |-> "P?",
     labels |-> <<"A", "B", "C", "D">>,
     text   |-> "x",
     answer |-> CorrectB,
     at     |-> 4,
     extra  |-> ""]

\* The blocks a completion is written from: the base block and what an LLM
\* makes of it.
BlockShapes ==
    { BaseBlock,
      [BaseBlock EXCEPT !.num = "5"],
      [BaseBlock EXCEPT !.prompt = "Which Question is it?"],
      [BaseBlock EXCEPT !.prompt = "Pick one:"],
      [BaseBlock EXCEPT !.text = "Question y"],
      [BaseBlock EXCEPT !.text = "the Answer: z"],
      [BaseBlock EXCEPT !.labels = <<"A", "B", "C">>, !.at = 3],
      [BaseBlock EXCEPT !.labels = <<"A", "B", "C">>, !.at = 3, !.extra = "Note"],
      [BaseBlock EXCEPT !.labels = <<"A", "A", "B", "C">>, !.answer = CorrectD],
      [BaseBlock EXCEPT !.labels = <<"A", "B", "C", "D", "A">>],
      [BaseBlock EXCEPT !.answer = BareLowerD],
      [BaseBlock EXCEPT !.answer = CorrectE],
      [BaseBlock EXCEPT !.answer = NoAnswerLine, !.extra = "Note"],
      [BaseBlock EXCEPT !.at = 0],
      [BaseBlock EXCEPT !.at = 2] }

\* What may stand before the first block.
Preambles == {"", "Here are 2:\n\n"}

\* The first line of a block.
HeaderLine(b) == "Question " \o b.num \o ": " \o b.prompt

\* The option line of the i-th option of a block.
OptionLine(b, i) == b.labels[i] \o ") " \o b.text

\* The option lines i..j of a block, each ended by a newline.
RECURSIVE OptionLines(_, _, _)
OptionLines(b, i, j) ==
    IF i > j THEN ""
    ELSE OptionLine(b, i) \o "\n" \o OptionLines(b, i + 1, j)

\* The text of one block, ended by a blank line.
BlockText(b) ==
    HeaderLine(b) \o "\n"
    \o OptionLines(b, 1, b.at)
    \o (IF b.answer.line = "" THEN "" ELSE b.answer.line \o "\n")
    \o OptionLines(b, b.at + 1, Len(b.labels))
    \o (IF b.extra = "" THEN "" ELSE b.extra \o "\n")
    \o "\n"

\* The text of a sequence of blocks.
RECURSIVE BlocksText(_)
BlocksText(bs) ==
    IF bs = <<>> THEN "" ELSE BlockText(Head(bs)) \o BlocksText(Tail(bs))

(***************************************************************************)
(* ParseSpec: main() of generate_mcqs.py after a completion has arrived:   *)
(* parse it, then display the questions                                    *)
(***************************************************************************)
ParseInit ==
    /\ blocks \in SeqsUpTo(BlockShapes, MaxBlocks)
    /\ \E preamble \in Preambles : response_text = preamble \o BlocksText(blocks)
    /\ parsed = <<>>
    /\ shown = <<>>
    /\ stage = "text"
    /\ files = [f \in {} |-> NoneData]
    /\ session = EmptySession
    /\ response = NoResponse
    /\ last_op = "none"
    /\ last_arg = ""
    /\ pre = EmptySession
    /\ submitted = <<>>

\* generated_questions = parse_mcqs(mcq_response)
parse_response ==
    /\ stage = "text"
    /\ parsed' = parse_mcqs(response_text)
    /\ stage' = "parsed"
    /\ UNCHANGED <<blocks, response_text, shown>>
    /\ UNCHANGED web_vars

\* display_mcqs(generated_questions), reached when the list is not empty
display_mcqs ==
    /\ stage = "parsed"
    /\ parsed # <<>>
    /\ shown' = Enumerate(parsed)
    /\ stage' = "displayed"
    /\ UNCHANGED <<blocks, response_text, parsed>>
    /\ UNCHANGED web_vars

ParseNext ==
    \/ parse_response
    \/ display_mcqs

ParseSpec == ParseInit /\ [][ParseNext]_vars

(***************************************************************************)
(* The three states of a session, read off a session dictionary s          *)
(***************************************************************************)
\* No batch bound: every handler's "'quiz_filename' not in session".
NotStartedIn(s) == "quiz_filename" \notin DOMAIN s

\* len(quiz_data['questions']) of the batch s is bound to.
TotalIn(s) == Len(load_mcq_data(s.quiz_filename).questions)

\* A batch is bound and the cursor has not reached its end.
InProgressIn(s) == ~NotStartedIn(s) /\ s.current_question < TotalIn(s)

\* A batch is bound and the cursor is at its end.
CompletedIn(s) == ~NotStartedIn(s) /\ s.current_question >= TotalIn(s)

\* The last request was a submit_answer that stored an answer.
Accepted == last_op = "submit_answer" /\ response.status = 200

\* The indices (0-based) of the bound batch that hold an answer record.
Answered(s) == {i \in 0..(TotalIn(s) - 1) : str(i) \in DOMAIN s.answers}

(***************************************************************************)
(* C1                                                                      *)
(***************************************************************************)
\* C1: every accepted submit_answer moves the cursor up by exactly 1, and
\* the cursor of a started session never exceeds the number of questions
\* of its batch.
C1_CursorStepsByOne ==
    /\ ~NotStartedIn(session) => session.current_question <= TotalIn(session)
    /\ Accepted => session.current_question = pre.current_question + 1

\* An accepted submission has just moved the cursor onto the end of a
\* three-question batch.
C1_Witness ==
    /\ Accepted
    /\ TotalIn(session) = 3
    /\ pre.current_question = 2
    /\ session.current_question = 3

(***************************************************************************)
(* C2                                                                      *)
(***************************************************************************)
\* C2: whenever a score is stored, it is the number of stored answer
\* records that are marked correct, and the number of submissions accepted
\* since the last start whose label was the correct one.
C2_ScoreCountsCorrect ==
    "score" \in DOMAIN session =>
        /\ session.score =
              Cardinality({k \in DOMAIN session.answers : session.answers[k].is_correct})
        /\ session.score =
              Cardinality({i \in 1..Len(submitted) : submitted[i].label = submitted[i].correct})

\* Three submissions, two of them right, and a read-only request after them.
C2_Witness ==
    /\ "score" \in DOMAIN session
    /\ Len(submitted) = 3
    /\ session.score = 2
    /\ last_op = "results"

(***************************************************************************)
(* C3                                                                      *)
(***************************************************************************)
\* C3: submit_answer and /question, called with no batch bound or with the
\* cursor at the end of the batch, answer with an error (400 and an error
\* message for submit_answer, a redirect away from the question page for
\* /question) and leave the session as it was.
C3_IllegalCallChangesNothing ==
    (last_op \in {"submit_answer", "question"}
        /\ (NotStartedIn(pre) \/ CompletedIn(pre))) =>
        /\ session = pre
        /\ IF last_op = "submit_answer"
           THEN /\ response.kind = "json"
                /\ response.status = 400
                /\ "error" \in DOMAIN response
                /\ "correct" \notin DOMAIN response
           ELSE /\ response.kind = "redirect"
                /\ response.status = 302
                /\ "question" \notin DOMAIN response

\* A submission arrives after the last question of a batch was answered.
C3_Witness ==
    /\ last_op = "submit_answer"
    /\ CompletedIn(pre)
    /\ pre.score > 0
    /\ response.status = 400

(***************************************************************************)
(* C4                                                                      *)
(***************************************************************************)
\* C4: an accepted submit_answer(label) reports correct = (label is the
\* correct_answer of the question the cursor stood on) and that correct
\* answer, for every label; a label outside A..D, or none, is stored as
\* given, marked incorrect, adds nothing to the score and still moves the
\* cursor.  Answers A, X, C on the batch A, B, C give true, false, true and
\* a score of 2 out of 3.
C4_SubmitComparesLabel ==
    /\ Accepted =>
          LET q      == load_mcq_data(pre.quiz_filename).questions[pre.current_question + 1]
              stored == session.answers[str(pre.current_question)]
          IN  /\ response.correct = (last_arg = q.correct_answer)
              /\ response.correct_answer = q.correct_answer
              /\ stored.user_answer = last_arg
              /\ stored.correct_answer = q.correct_answer
              /\ stored.is_correct = (last_arg = q.correct_answer)
              /\ last_arg \notin Labels =>
                    /\ ~response.correct
                    /\ ~stored.is_correct
                    /\ session.score = pre.score
                    /\ session.current_question = pre.current_question + 1
    /\ (/\ ~NotStartedIn(session)
        /\ session.quiz_filename = "mcqs_abc.json"
        /\ [i \in 1..Len(submitted) |-> submitted[i].label] = <<"A", "X", "C">>) =>
          /\ [i \in 1..3 |-> session.answers[str(i - 1)].is_correct] = <<TRUE, FALSE, TRUE>>
          /\ session.score = 2
          /\ TotalIn(session) = 3

\* C has just been accepted as the last answer of A, X, C.
C4_Witness ==
    /\ Accepted
    /\ last_arg = "C"
    /\ session.quiz_filename = "mcqs_abc.json"
    /\ [i \in 1..Len(submitted) |-> submitted[i].label] = <<"A", "X", "C">>

(***************************************************************************)
(* C5                                                                      *)
(***************************************************************************)
\* C5 as claimed: quiz_progress answers with (cursor, total, score) in
\* every state, all zero when no batch is bound.
C5_ProgressAlwaysDefined ==
    last_op = "quiz_progress" =>
        /\ response.status = 200
        /\ response.current_question =
              (IF NotStartedIn(session) THEN 0 ELSE session.current_question)
        /\ response.total_questions =
              (IF NotStartedIn(session) THEN 0 ELSE TotalIn(session))
        /\ response.score = (IF NotStartedIn(session) THEN 0 ELSE session.score)

\* C5 amended: with a batch bound, quiz_progress answers with the cursor,
\* the number of questions of the batch and the score; with none bound it
\* answers 400 "No active quiz".  It never changes the session.
C5_ProgressWhenStarted ==
    last_op = "quiz_progress" =>
        /\ session = pre
        /\ IF NotStartedIn(session)
           THEN response = JsonError("No active quiz")
           ELSE /\ response.status = 200
                /\ response.current_question = session.current_question
                /\ response.total_questions = TotalIn(session)
                /\ response.score = session.score

\* quiz_progress is asked in the middle of a quiz with a point scored.
C5_Witness ==
    /\ last_op = "quiz_progress"
    /\ InProgressIn(session)
    /\ session.current_question = 2
    /\ session.score = 1

(***************************************************************************)
(* C6                                                                      *)
(***************************************************************************)
\* C6 as claimed: only reset_quiz takes a session out of Completed, and
\* reset_quiz leaves an empty session.
C6_OnlyResetLeavesCompleted ==
    /\ (CompletedIn(pre) /\ ~CompletedIn(session)) => last_op = "reset_quiz"
    /\ last_op = "reset_quiz" => session = EmptySession

\* C6 amended: only reset_quiz and an accepted start_quiz take a session
\* out of Completed; a session goes from Completed to InProgress only by
\* start_quiz, with cursor 0, no answers and score 0; every other request
\* leaves a Completed session as it is; reset_quiz leaves an empty session.
C6_ResetOrStartLeavesCompleted ==
    /\ (CompletedIn(pre) /\ ~CompletedIn(session)) =>
          last_op \in {"reset_quiz", "start_quiz"}
    /\ (CompletedIn(pre) /\ InProgressIn(session)) =>
          /\ last_op = "start_quiz"
          /\ session.current_question = 0
          /\ session.answers = EmptyAnswers
          /\ session.score = 0
    /\ (CompletedIn(pre) /\ last_op \notin {"reset_quiz", "start_quiz"}) =>
          session = pre
    /\ last_op = "reset_quiz" => session = EmptySession

\* A finished three-question quiz is started again without a reset.
C6_Witness ==
    /\ CompletedIn(pre)
    /\ TotalIn(pre) = 3
    /\ last_op = "start_quiz"
    /\ InProgressIn(session)

(***************************************************************************)
(* C7                                                                      *)
(***************************************************************************)
\* C7: start_quiz on a file that holds a batch, from any state, leaves the
\* session bound to that file with cursor 0, no answers and score 0.
C7_StartDiscardsPrior ==
    (last_op = "start_quiz" /\ "questions" \in load_mcq_data(last_arg).keys) =>
        /\ session.quiz_filename = last_arg
        /\ session.current_question = 0
        /\ session.answers = EmptyAnswers
        /\ session.score = 0
        /\ submitted = <<>>
        /\ response = Redirect("question")

\* A start arrives in a session that holds two answers and a point on
\* another batch.
C7_Witness ==
    /\ last_op = "start_quiz"
    /\ ~NotStartedIn(pre)
    /\ pre.quiz_filename # last_arg
    /\ Cardinality(DOMAIN pre.answers) = 2
    /\ pre.score = 1
    /\ ~NotStartedIn(session)
    /\ session.quiz_filename = last_arg

(***************************************************************************)
(* C8                                                                      *)
(***************************************************************************)
\* C8: start_quiz does not accept a batch without questions, so a started
\* session is never bound to a batch of 0 questions.
C8_NoSessionOnEmptyBatch ==
    ~NotStartedIn(session) => TotalIn(session) > 0

(***************************************************************************)
(* C9                                                                      *)
(***************************************************************************)
\* C9: an answer record, once stored, stays as it is until reset_quiz or
\* an accepted start_quiz: no request in between changes or removes it,
\* and an accepted submit_answer writes an index that held no record.
C9_AnswerWrittenOnce ==
    /\ (~NotStartedIn(pre) /\ last_op \notin {"reset_quiz", "start_quiz"}) =>
          \A k \in DOMAIN pre.answers :
             /\ k \in DOMAIN session.answers
             /\ session.answers[k] = pre.answers[k]
    /\ Accepted =>
          /\ str(pre.current_question) \notin DOMAIN pre.answers
          /\ DOMAIN session.answers = DOMAIN pre.answers \cup {str(pre.current_question)}

\* A second answer is accepted while the first one, a wrong one, is stored.
C9_Witness ==
    /\ Accepted
    /\ "0" \in DOMAIN pre.answers
    /\ ~pre.answers["0"].is_correct
    /\ pre.current_question = 1
    /\ last_arg = pre.answers["0"].correct_answer

(***************************************************************************)
(* C10                                                                     *)
(***************************************************************************)
\* C10: results lists one entry for each index with an answer record and
\* no other, in ascending index order, each with the batch's question at
\* that index and the stored user answer, correct answer and is_correct;
\* total is the number of questions of the batch and percentage is
\* 100 * score / total, 0 when total is 0; the session is left unchanged.
C10_ResultsListAnswers ==
    (last_op = "results" /\ ~NotStartedIn(session)) =>
        LET questions == load_mcq_data(session.quiz_filename).questions
            answers   == session.answers
            listed    == response.detailed_results
        IN  /\ session = pre
            /\ Len(listed) = Cardinality(DOMAIN answers)
            /\ \A j \in 1..Len(listed) :
                  \E i \in Answered(session) :
                     /\ Cardinality({h \in Answered(session) : h < i}) = j - 1
                     /\ listed[j].question = questions[i + 1]
                     /\ listed[j].user_answer = answers[str(i)].user_answer
                     /\ listed[j].correct_answer = answers[str(i)].correct_answer
                     /\ listed[j].is_correct = answers[str(i)].is_correct
            /\ response.score = session.score
            /\ response.total = Len(questions)
            /\ IF Len(questions) = 0
               THEN response.percentage.num = 0
               ELSE response.percentage.num * Len(questions) =
                       100 * session.score * response.percentage.den

\* results after A, X, C on the batch A, B, C: three entries, 2 of 3.
C10_Witness ==
    /\ last_op = "results"
    /\ ~NotStartedIn(session)
    /\ Len(response.detailed_results) = 3
    /\ response.score = 2
    /\ response.total = 3

\* results on a batch without questions: total 0.
C10_WitnessEmpty ==
    /\ last_op = "results"
    /\ ~NotStartedIn(session)
    /\ response.total = 0

(***************************************************************************)
(* C16                                                                     *)
(***************************************************************************)
\* C16: in a started session the keys of answers are exactly the indices
\* 0 .. cursor - 1 (as strings), all of them below the number of questions
\* of the batch, and a results page lists exactly cursor entries.
C16_AnswersAreThePrefix ==
    ~NotStartedIn(session) =>
        /\ DOMAIN session.answers =
              {str(i) : i \in 0..(session.current_question - 1)}
        /\ Answered(session) = 0..(session.current_question - 1)
        /\ Cardinality(DOMAIN session.answers) = session.current_question
        /\ session.current_question <= TotalIn(session)
        /\ last_op = "results" =>
              Len(response.detailed_results) = session.current_question

\* A results page is shown after two of three questions were answered.
C16_Witness ==
    /\ last_op = "results"
    /\ ~NotStartedIn(session)
    /\ session.current_question = 2
    /\ TotalIn(session) = 3
    /\ Len(response.detailed_results) = 2

(***************************************************************************)
(* The blocks a completion was written from, as the claims see them        *)
(***************************************************************************)
\* Neither the prompt nor the option text contains the delimiter.
NoDelimiterInside(b) ==
    ~Contains(b.prompt, "Question ") /\ ~Contains(b.text, "Question ")

\* The block has the shape the prompt asks for: the marker line, the option
\* lines A), B), C), D), then an answer line naming one of A..D.
WellFormed(b) ==
    /\ b.labels = <<"A", "B", "C", "D">>
    /\ b.at = 4
    /\ b.answer.letter # ""
    /\ b.extra = ""

\* One of the options A..D has no line in the block.
MissesAnOption(b) == {b.labels[i] : i \in 1..Len(b.labels)} # Labels

\* The answer line names no letter of A..D.
BadAnswerLetter(b) == b.answer.line # "" /\ b.answer.letter = ""

\* Four option lines stand between the first line and the answer line,
\* and the answer line names one of A..D.
FourOptionsThenAnswer(b) ==
    b.answer.line # "" /\ b.at = 4 /\ b.answer.letter # ""

\* The blocks of bs with the shape the prompt asks for, in order.
RECURSIVE WellFormedOf(_)
WellFormedOf(bs) ==
    IF bs = <<>> THEN <<>>
    ELSE (IF WellFormed(Head(bs)) THEN <<Head(bs)>> ELSE <<>>)
         \o WellFormedOf(Tail(bs))

\* The blocks of bs with four option lines before a valid answer line.
RECURSIVE FourThenAnswerOf(_)
FourThenAnswerOf(bs) ==
    IF bs = <<>> THEN <<>>
    ELSE (IF FourOptionsThenAnswer(Head(bs)) THEN <<Head(bs)>> ELSE <<>>)
         \o FourThenAnswerOf(Tail(bs))

\* The record rec has the prompt, the first four option lines and the
\* answer letter of block b.
MatchesBlock(rec, b) ==
    /\ rec.question = RStripColon(HeaderLine(b))
    /\ rec.options = [i \in 1..4 |-> OptionLine(b, i)]
    /\ rec.correct_answer = b.answer.letter

(***************************************************************************)
(* C11                                                                     *)
(***************************************************************************)
\* C11: a completion made of well-formed blocks only, whatever their
\* prompt and option texts, is parsed into one record per block, each with
\* the prompt, the four options and the answer letter of its block.
C11_WellFormedBlocksParsed ==
    (stage # "text" /\ \A i \in 1..Len(blocks) : WellFormed(blocks[i])) =>
        /\ Len(parsed) = Len(blocks)
        /\ \A i \in 1..Len(blocks) : MatchesBlock(parsed[i], blocks[i])

(***************************************************************************)
(* C12                                                                     *)
(***************************************************************************)
\* C12: in a completion whose blocks are each either well-formed or
\* defective (an option A..D without a line, or an answer letter outside
\* A..D), the defective blocks give no record and the well-formed ones
\* give one each, in order of appearance.
C12_DefectiveBlocksDropped ==
    (/\ stage # "text"
     /\ \A i \in 1..Len(blocks) :
           /\ NoDelimiterInside(blocks[i])
           /\ WellFormed(blocks[i]) \/ MissesAnOption(blocks[i]) \/ BadAnswerLetter(blocks[i])) =>
        LET kept == WellFormedOf(blocks)
        IN  /\ Len(parsed) = Len(kept)
            /\ \A k \in 1..Len(kept) : MatchesBlock(parsed[k], kept[k])

(***************************************************************************)
(* C13                                                                     *)
(***************************************************************************)
\* C13 as claimed: the records parse_mcqs returns carry the ids 1..N in
\* output order.
C13_RecordsCarryIds ==
    stage # "text" =>
        \A k \in 1..Len(parsed) :
            "id" \in DOMAIN parsed[k] /\ parsed[k].id = k

\* C13 amended: the records carry no id; the number of a record is its
\* position in the returned list, counted from 1 by display_mcqs, so the
\* numbers are 1..N in output order; a dropped block takes no number, and
\* the number written in the source stays in the question text only.
C13_NumberedByPosition ==
    stage = "displayed" =>
        /\ Len(shown) = Len(parsed)
        /\ \A k \in 1..Len(shown) :
              /\ shown[k][1] = k
              /\ shown[k][2] = parsed[k]
              /\ "id" \notin DOMAIN parsed[k]
        /\ (\A i \in 1..Len(blocks) : NoDelimiterInside(blocks[i])) =>
              LET kept == FourThenAnswerOf(blocks)
              IN  /\ Len(shown) = Len(kept)
                  /\ \A k \in 1..Len(kept) :
                        shown[k][2].question = RStripColon(HeaderLine(kept[k]))

\* A block headed "Question 5" follows a dropped block and is shown as
\* number 1.
C13_Witness ==
    /\ stage = "displayed"
    /\ Len(blocks) = 2
    /\ ~FourOptionsThenAnswer(blocks[1])
    /\ blocks[2].num = "5"
    /\ Len(shown) = 1
    /\ shown[1][1] = 1
    /\ shown[1][2].question = "Question 5: P?"

(***************************************************************************)
(* C14                                                                     *)
(***************************************************************************)
\* C14 as claimed: a block of at least 6 lines with exactly 4 option lines
\* and a valid answer line gives a record wherever the answer line stands.
C14_AnswerLineAnywhere ==
    (/\ stage # "text"
     /\ \A i \in 1..Len(blocks) :
           /\ NoDelimiterInside(blocks[i])
           /\ Len(blocks[i].labels) = 4
           /\ blocks[i].answer.letter # "") =>
        Len(parsed) = Len(blocks)

\* C14 amended: the option lines counted are those between the block's
\* first line and its first answer line; a block gives a record exactly
\* when four option lines stand before an answer line that names one of
\* A..D, and the record holds those four lines in file order.  A block
\* whose answer line stands before or between its four option lines gives
\* none; option lines after the answer line are ignored.
C14_OptionsBeforeAnswerLine ==
    (stage # "text" /\ \A i \in 1..Len(blocks) : NoDelimiterInside(blocks[i])) =>
        LET kept == FourThenAnswerOf(blocks)
        IN  /\ Len(parsed) = Len(kept)
            /\ \A k \in 1..Len(kept) :
                  /\ parsed[k].options = [i \in 1..4 |-> OptionLine(kept[k], i)]
                  /\ parsed[k].correct_answer = kept[k].answer.letter
                  /\ parsed[k].raw_answer_line = kept[k].answer.line

\* A block with the answer line between its options was dropped and a
\* block with a fifth option line after the answer line was kept.
C14_Witness ==
    /\ stage = "parsed"
    /\ Len(blocks) = 2
    /\ blocks[1].at = 2
    /\ Len(blocks[1].labels) = 4
    /\ blocks[1].answer.letter # ""
    /\ Len(blocks[2].labels) = 5
    /\ Len(parsed) = 1
    /\ parsed[1].options = <<"A) x", "B) x", "C) x", "D) x">>

(***************************************************************************)
(* C15                                                                     *)
(***************************************************************************)
\* C15: every record parse_mcqs returns has four options that carry the
\* labels A, B, C, D once each, and a correct_answer that is the label of
\* one of them.
C15_RecordsHaveFourLabels ==
    stage # "text" =>
        \A k \in 1..Len(parsed) :
            LET opts == parsed[k].options
            IN  /\ Len(opts) = 4
                /\ \A l \in Labels :
                      Cardinality({i \in 1..Len(opts) : CharAt(opts[i], 1) = l}) = 1
                /\ \E i \in 1..Len(opts) :
                      CharAt(opts[i], 1) = parsed[k].correct_answer

=============================================================================
